---- MODULE Spec2Model ----
(***************************************************************************)
(* World Happiness Report dashboard (app.py): the data loader load_data    *)
(* with its header normalisation and rename map, the memoised load, and    *)
(* the six views of the dispatch-by-selection step.                        *)
(***************************************************************************)
EXTENDS Integers, Sequences, FiniteSets, TLC

VARIABLES
    file,      \* WHR2023.csv on disk: <<csv>>, or <<>> when there is no file
    cache,     \* st.cache_data's entry for load_data: <<table>>, or <<>>
    loaded,    \* what load_data() returned to line 39 in the last run
    df,        \* the module's df when the last run ended
    page,      \* the sidebar radio's selection
    errors,    \* the st.error messages of the last run
    plots,     \* the seaborn calls of the last run, with the data passed
    charts,    \* the st.pyplot calls of the last run
    raised,    \* whether the last run ended with an unhandled exception
    branches,  \* the view branches the last run entered
    sidebar,   \* whether the last run rendered the sidebar radio
    loads,     \* executions of load_data's body in this session
    renders,   \* runs of this session that got past line 39
    firstDf,   \* <<the table the session's first render saw>>
    step,      \* where a bare load stands: csv, loaded, again
    again      \* the loaded table canonicalised a second time

vars == <<file, cache, loaded, df, page, errors, plots, charts, raised, branches,
          sidebar, loads, renders, firstDf, step, again>>

Range(s) == {s[i] : i \in DOMAIN s}

\* The increasing enumeration of a set of positions.
RECURSIVE Ascending(_)
Ascending(S) ==
    IF S = {} THEN <<>>
    ELSE LET m == CHOOSE x \in S : \A y \in S : x <= y
         IN <<m>> \o Ascending(S \ {m})

(***************************************************************************)
(* Strings.  A header is a sequence of tokens: a word (a run of letters)   *)
(* or one separator character, a space, a tab or an underscore.  No two    *)
(* words are adjacent, so two headers are the same string exactly when     *)
(* they are the same token sequence.                                       *)
(***************************************************************************)
IsSpace(t) == t \in {" ", "\t"}

\* str.lower() on one token: the capitalised words of the CSV headers.
Lower(t) ==
    CASE t = "Country" -> "country"
      [] t = "Ladder" -> "ladder"
      [] t = "Logged" -> "logged"
      [] t = "GDP" -> "gdp"
      [] t = "Social" -> "social"
      [] t = "Healthy" -> "healthy"
      [] t = "Freedom" -> "freedom"
      [] t = "Generosity" -> "generosity"
      [] t = "Perceptions" -> "perceptions"
      [] t = "Regional" -> "regional"
      [] t = "Region" -> "region"
      [] t = "Happiness" -> "happiness"
      [] t = "Score" -> "score"
      [] OTHER -> t

RECURSIVE LStrip(_)
LStrip(s) == IF s # <<>> /\ IsSpace(Head(s)) THEN LStrip(Tail(s)) ELSE s

RECURSIVE RStrip(_)
RStrip(s) ==
    IF s # <<>> /\ IsSpace(s[Len(s)]) THEN RStrip(SubSeq(s, 1, Len(s) - 1)) ELSE s

\* .str.strip(): surrounding whitespace (spaces and tabs alike) goes.
StrStrip(s) == RStrip(LStrip(s))

\* .str.lower()
StrLower(s) == [i \in DOMAIN s |-> Lower(s[i])]

\* .str.replace(old, new) for a one-character old.
StrReplace(s, old, new) == [i \in DOMAIN s |-> IF s[i] = old THEN new ELSE s[i]]

\* One header through line 19: strip, then lower, then spaces to underscores.
NormalizeName(h) == StrReplace(StrLower(StrStrip(h)), " ", "_")

(***************************************************************************)
(* Column names the program spells out.                                    *)
(***************************************************************************)
country == <<"country">>
happiness_score == <<"happiness", "_", "score">>
gdp_per_capita == <<"gdp", "_", "per", "_", "capita">>
social_support == <<"social", "_", "support">>
life_expectancy == <<"life", "_", "expectancy">>
freedom == <<"freedom">>
corruption == <<"corruption">>
region == <<"region">>
country_name == <<"country", "_", "name">>
ladder_score == <<"ladder", "_", "score">>
logged_gdp_per_capita == <<"logged", "_", "gdp", "_", "per", "_", "capita">>
healthy_life_expectancy == <<"healthy", "_", "life", "_", "expectancy">>
freedom_to_make_life_choices ==
    <<"freedom", "_", "to", "_", "make", "_", "life", "_", "choices">>
perceptions_of_corruption == <<"perceptions", "_", "of", "_", "corruption">>
regional_indicator == <<"regional", "_", "indicator">>
generosity == <<"generosity">>

\* rename_map, in the dict's insertion order: <<old, new>>.
RenameMapChained ==
    << <<country_name, country>>,
       <<ladder_score, happiness_score>>,
       <<logged_gdp_per_capita, gdp_per_capita>>,
       <<social_support, social_support>>,
       <<healthy_life_expectancy, life_expectancy>>,
       <<freedom_to_make_life_choices, freedom>>,
       <<perceptions_of_corruption, corruption>>,
       <<regional_indicator, country_name>> >>

rename_map ==
    << <<country_name, country>>,
       <<ladder_score, happiness_score>>,
       <<logged_gdp_per_capita, gdp_per_capita>>,
       <<social_support, social_support>>,
       <<healthy_life_expectancy, life_expectancy>>,
       <<freedom_to_make_life_choices, freedom>>,
       <<perceptions_of_corruption, corruption>>,
       <<regional_indicator, region>> >>

(***************************************************************************)
(* Tables.  A cell is a number, a missing value or a text; a table is its  *)
(* column names, each column's dtype, its index labels (one per row) and   *)
(* its rows (one cell per column).                                         *)
(***************************************************************************)
Num(v) == [kind |-> "num", val |-> v]
NaN == [kind |-> "nan", val |-> 0]
Text(v) == [kind |-> "str", val |-> v]

\* pd.read_csv's dtype inference for one column: numeric when there is a row
\* and every field is a number or empty, object otherwise.
InferDtype(rows, j) ==
    IF rows # <<>> /\ \A i \in DOMAIN rows : rows[i][j].kind \in {"num", "nan"}
    THEN "number" ELSE "object"

\* pd.read_csv: the header line becomes the columns, the records the rows.
read_csv(csv) ==
    [columns |-> csv.header,
     dtypes |-> [j \in DOMAIN csv.header |-> InferDtype(csv.records, j)],
     index |-> [i \in DOMAIN csv.records |-> i - 1],
     rows |-> csv.records]

\* df.columns = df.columns.str.strip().str.lower().str.replace(' ', '_')
NormalizeColumns(t) ==
    [t EXCEPT !.columns = [j \in DOMAIN t.columns |-> NormalizeName(t.columns[j])]]

\* A rename that loses the renamed column instead of relabelling it.
RenameDropping(t, old, new) ==
    LET ix == Ascending({j \in DOMAIN t.columns : t.columns[j] # old})
    IN IF old = new THEN t
       ELSE [columns |-> [k \in DOMAIN ix |-> t.columns[ix[k]]],
             dtypes |-> [k \in DOMAIN ix |-> t.dtypes[ix[k]]],
             index |-> t.index,
             rows |-> [i \in DOMAIN t.rows |-> [k \in DOMAIN ix |-> t.rows[i][ix[k]]]]]

\* df.rename(columns={old: new}, inplace=True): every column named old is
\* relabelled; nothing else of the table changes.
Rename(t, old, new) ==
    [t EXCEPT !.columns = [j \in DOMAIN t.columns |->
                              IF t.columns[j] = old THEN new ELSE t.columns[j]]]

\* The loop of lines 33-35 that stops at the first entry it applies.
RECURSIVE RenameLoopBreaking(_, _, _)
RenameLoopBreaking(t, map, k) ==
    IF k > Len(map) THEN t
    ELSE IF map[k][1] \in Range(t.columns)
         THEN Rename(t, map[k][1], map[k][2])
         ELSE RenameLoopBreaking(t, map, k + 1)

\* for old, new in rename_map.items(): if old in df.columns: df.rename(...)
RECURSIVE RenameLoop(_, _, _)
RenameLoop(t, map, k) ==
    IF k > Len(map) THEN t
    ELSE RenameLoop(IF map[k][1] \in Range(t.columns)
                    THEN Rename(t, map[k][1], map[k][2])
                    ELSE t,
                    map, k + 1)

\* Lines 19-35 on a table already read: normalise the headers, then rename.
Canonicalize(t) == RenameLoop(NormalizeColumns(t), rename_map, 1)

\* load_data(): read the CSV, canonicalise the headers, return the table.
load_data(csv) == Canonicalize(read_csv(csv))

(***************************************************************************)
(* The pandas operations of the views.                                     *)
(***************************************************************************)
\* The position of the column called name.
ColIndex(t, name) ==
    CHOOSE j \in DOMAIN t.columns :
        t.columns[j] = name /\ \A k \in 1..(j - 1) : t.columns[k] # name

\* The rows at the positions ix, in that order, under their own labels.
TakeRows(t, ix) ==
    [t EXCEPT !.index = [k \in DOMAIN ix |-> t.index[ix[k]]],
              !.rows = [k \in DOMAIN ix |-> t.rows[ix[k]]]]

\* The first n positions of S by value in column j, the largest first when
\* desc, the smallest first otherwise; equal values in table order (keep='first').
RECURSIVE SelectN(_, _, _, _, _)
SelectN(t, j, S, n, desc) ==
    IF n = 0 \/ S = {} THEN <<>>
    ELSE LET Before(a, b) ==
                 LET va == t.rows[a][j].val
                     vb == t.rows[b][j].val
                 IN IF va = vb THEN a <= b
                    ELSE IF desc THEN va > vb ELSE va < vb
             best == CHOOSE a \in S : \A b \in S : Before(a, b)
         IN <<best>> \o SelectN(t, j, S \ {best}, n - 1, desc)

\* Series.nlargest / nsmallest as DataFrame.nlargest(n, column) uses it: the
\* rows that have a value, ordered, then the rows whose value is missing, in
\* table order, cut to n rows (pandas keeps missing values, last, since it
\* stopped dropping them in these two methods).
NOrdered(t, j, n, desc) ==
    LET valued == {i \in DOMAIN t.rows : t.rows[i][j].kind = "num"}
        missing == {i \in DOMAIN t.rows : t.rows[i][j].kind = "nan"}
        all == SelectN(t, j, valued, n, desc) \o Ascending(missing)
    IN SubSeq(all, 1, IF Len(all) < n THEN Len(all) ELSE n)

\* A selection that drops the rows with a missing value before it selects.
NLargestDropNa(t, n, name) ==
    LET j == ColIndex(t, name)
        valued == {i \in DOMAIN t.rows : t.rows[i][j].kind = "num"}
    IN TakeRows(t, SelectN(t, j, valued, n, TRUE))

\* df.nlargest(n, name) on a numeric column.
nlargest(t, n, name) == TakeRows(t, NOrdered(t, ColIndex(t, name), n, TRUE))

\* A selection of the smallest that orders the wrong way round.
NSmallestDescending(t, n, name) == TakeRows(t, NOrdered(t, ColIndex(t, name), n, TRUE))

\* df.nsmallest(n, name) on a numeric column.
nsmallest(t, n, name) == TakeRows(t, NOrdered(t, ColIndex(t, name), n, FALSE))

\* nlargest and nsmallest raise TypeError on a column that is not numeric.
SelectRaises(t, name) == t.dtypes[ColIndex(t, name)] # "number"

\* df[names]: the named columns, in the order asked.
Project(t, names) ==
    [columns |-> names,
     dtypes |-> [k \in DOMAIN names |-> t.dtypes[ColIndex(t, names[k])]],
     index |-> t.index,
     rows |-> [i \in DOMAIN t.rows |->
                  [k \in DOMAIN names |-> t.rows[i][ColIndex(t, names[k])]]]]

\* A dropna that only drops the rows in which every value is missing.
DropNaAll(t) ==
    TakeRows(t, Ascending({i \in DOMAIN t.rows :
                              \E k \in DOMAIN t.columns : t.rows[i][k].kind # "nan"}))

\* .dropna(): the rows without any missing value, in table order.
dropna(t) ==
    TakeRows(t, Ascending({i \in DOMAIN t.rows :
                              \A k \in DOMAIN t.columns : t.rows[i][k].kind # "nan"}))

\* df.select_dtypes(include=['number']): the numeric columns, in table order.
select_dtypes(t) ==
    LET num == Ascending({j \in DOMAIN t.columns : t.dtypes[j] = "number"})
    IN [columns |-> [k \in DOMAIN num |-> t.columns[num[k]]],
        dtypes |-> [k \in DOMAIN num |-> "number"],
        index |-> t.index,
        rows |-> [i \in DOMAIN t.rows |-> [k \in DOMAIN num |-> t.rows[i][num[k]]]]]

\* numeric_df.corr(): a square matrix labelled by the numeric columns on both
\* axes; only its labels are kept, the coefficients are not modelled.
corr(t) ==
    [columns |-> t.columns, dtypes |-> t.dtypes, index |-> <<>>, rows |-> <<>>]

(***************************************************************************)
(* The views (lines 69-189).  A view's result: the branch entered, the     *)
(* st.error messages, the seaborn calls reached, the st.pyplot calls, the  *)
(* exception flag, and df as the branch leaves it.  Messages are written   *)
(* without their leading warning sign.                                     *)
(***************************************************************************)
TopN == 10

Options ==
    <<"Top & Bottom 10 Countries", "GDP vs Happiness", "Social Support vs Happiness",
      "Happiness Distribution", "Correlation Heatmap", "Pairwise Relationships">>

possible_cols ==
    <<happiness_score, gdp_per_capita, social_support, life_expectancy, freedom>>

\* safe_col(col_name): col_name in df.columns.
safe_col(t, name) == name \in Range(t.columns)

Plot(fn, data, hue) == [fn |-> fn, data |-> data, hue |-> hue]

Out(b, e, p, c, r, t) ==
    [branch |-> b, errors |-> e, plots |-> p, charts |-> c, raised |-> r, df |-> t]

\* 'region' if safe_col('region') else None
Hue(t) == IF safe_col(t, region) THEN region ELSE <<>>

\* Lines 77-101: two bar charts, the ten happiest and the ten least happy.
TopBottomView(t) ==
    IF ~safe_col(t, happiness_score) \/ ~safe_col(t, country)
    THEN Out("Top & Bottom 10 Countries",
             <<"Required columns not found in dataset.">>, <<>>, <<>>, FALSE, t)
    ELSE IF SelectRaises(t, happiness_score)
    THEN Out("Top & Bottom 10 Countries", <<>>, <<>>, <<>>, TRUE, t)
    ELSE LET top_10 == nlargest(t, TopN, happiness_score)
             bottom_10 == nsmallest(t, TopN, happiness_score)
         IN Out("Top & Bottom 10 Countries", <<>>,
                <<Plot("barplot", top_10, <<>>), Plot("barplot", bottom_10, <<>>)>>,
                <<"barplot", "barplot">>, FALSE, t)

\* Lines 107-124.
GdpView(t) ==
    IF ~safe_col(t, gdp_per_capita) \/ ~safe_col(t, happiness_score)
    THEN Out("GDP vs Happiness",
             <<"GDP or Happiness Score column missing.">>, <<>>, <<>>, FALSE, t)
    ELSE Out("GDP vs Happiness", <<>>,
             <<Plot("scatterplot", t, Hue(t))>>, <<"scatterplot">>, FALSE, t)

\* Lines 130-147.
SocialView(t) ==
    IF ~safe_col(t, social_support) \/ ~safe_col(t, happiness_score)
    THEN Out("Social Support vs Happiness",
             <<"Social Support or Happiness Score column missing.">>,
             <<>>, <<>>, FALSE, t)
    ELSE Out("Social Support vs Happiness", <<>>,
             <<Plot("scatterplot", t, Hue(t))>>, <<"scatterplot">>, FALSE, t)

\* Lines 153-162.
DistributionView(t) ==
    IF ~safe_col(t, happiness_score)
    THEN Out("Happiness Distribution",
             <<"Happiness Score column missing.">>, <<>>, <<>>, FALSE, t)
    ELSE Out("Happiness Distribution", <<>>,
             <<Plot("histplot", Project(t, <<happiness_score>>), <<>>)>>,
             <<"histplot">>, FALSE, t)

\* Lines 168-173: no column check.  sns.heatmap of an empty correlation
\* matrix raises ValueError (the minimum of no values), so st.pyplot is not
\* reached when the table has no numeric column.
HeatmapView(t) ==
    LET numeric_df == select_dtypes(t)
        matrix == corr(numeric_df)
    IN IF matrix.columns = <<>>
       THEN Out("Correlation Heatmap", <<>>,
                <<Plot("heatmap", matrix, <<>>)>>, <<>>, TRUE, t)
       ELSE Out("Correlation Heatmap", <<>>,
                <<Plot("heatmap", matrix, <<>>)>>, <<"heatmap">>, FALSE, t)

\* [col for col in possible_cols if safe_col(col)]
RECURSIVE Filter(_, _)
Filter(names, t) ==
    IF names = <<>> THEN <<>>
    ELSE (IF safe_col(t, Head(names)) THEN <<Head(names)>> ELSE <<>>)
         \o Filter(Tail(names), t)

valid_cols(t) == Filter(possible_cols, t)

\* The pairwise view with the cleaning done on df itself.
PairwiseViewInPlace(t) ==
    IF Len(valid_cols(t)) < 2
    THEN Out("Pairwise Relationships",
             <<"Not enough numeric columns for pairwise visualization.">>,
             <<>>, <<>>, FALSE, t)
    ELSE LET df_clean == dropna(Project(t, valid_cols(t)))
         IN Out("Pairwise Relationships", <<>>,
                <<Plot("pairplot", df_clean, <<>>)>>, <<"pairplot">>, FALSE,
                dropna(t))

\* Lines 179-189.
PairwiseView(t) ==
    IF Len(valid_cols(t)) < 2
    THEN Out("Pairwise Relationships",
             <<"Not enough numeric columns for pairwise visualization.">>,
             <<>>, <<>>, FALSE, t)
    ELSE LET df_clean == dropna(Project(t, valid_cols(t)))
         IN Out("Pairwise Relationships", <<>>,
                <<Plot("pairplot", df_clean, <<>>)>>, <<"pairplot">>, FALSE, t)

\* The chain with the last branch's label misspelt.
ViewDispatchMisspelt(p, t) ==
    IF p = "Top & Bottom 10 Countries" THEN <<TopBottomView(t)>>
    ELSE IF p = "GDP vs Happiness" THEN <<GdpView(t)>>
    ELSE IF p = "Social Support vs Happiness" THEN <<SocialView(t)>>
    ELSE IF p = "Happiness Distribution" THEN <<DistributionView(t)>>
    ELSE IF p = "Correlation Heatmap" THEN <<HeatmapView(t)>>
    ELSE IF p = "Pairwise Relationship" THEN <<PairwiseView(t)>>
    ELSE <<>>

\* The if / elif chain of lines 76-178: the results of the branches entered.
ViewDispatch(p, t) ==
    IF p = "Top & Bottom 10 Countries" THEN <<TopBottomView(t)>>
    ELSE IF p = "GDP vs Happiness" THEN <<GdpView(t)>>
    ELSE IF p = "Social Support vs Happiness" THEN <<SocialView(t)>>
    ELSE IF p = "Happiness Distribution" THEN <<DistributionView(t)>>
    ELSE IF p = "Correlation Heatmap" THEN <<HeatmapView(t)>>
    ELSE IF p = "Pairwise Relationships" THEN <<PairwiseView(t)>>
    ELSE <<>>

(***************************************************************************)
(* The CSV files a run may find on disk.                                    *)
(***************************************************************************)
MaxCols == 3
MaxRows == 2
MaxScoreRows == 21
MaxHeaders == 2
MaxRenders == 2

EmptyTable == [columns |-> <<>>, dtypes |-> <<>>, index |-> <<>>, rows |-> <<>>]

\* The header WHR2023.csv uses for a canonical column.
CsvSpelling(name) ==
    CASE name = country -> <<"Country", " ", "name">>
      [] name = happiness_score -> <<"Ladder", " ", "score">>
      [] name = gdp_per_capita -> <<"Logged", " ", "GDP", " ", "per", " ", "capita">>
      [] name = social_support -> <<"Social", " ", "support">>
      [] name = life_expectancy -> <<"Healthy", " ", "life", " ", "expectancy">>
      [] name = freedom ->
             <<"Freedom", " ", "to", " ", "make", " ", "life", " ", "choices">>
      [] name = corruption -> <<"Perceptions", " ", "of", " ", "corruption">>
      [] name = region -> <<"Regional", " ", "indicator">>
      [] name = generosity -> <<"Generosity">>
      [] OTHER -> name

Spell(name, spelling) == IF spelling = "csv" THEN CsvSpelling(name) ELSE name

ColumnPool ==
    <<country, region, happiness_score, gdp_per_capita, social_support,
      life_expectancy, freedom, generosity>>

\* A field of record i under the column called name, the j-th of its file.
Field(i, j, name, fill) ==
    IF name \in {country, region} THEN Text(i)
    ELSE CASE fill = "full" -> Num(i + j)
           [] fill = "gaps" -> IF j = i + 1 THEN NaN ELSE Num(i + j)
           [] fill = "text" -> IF i = 1 THEN Text(0) ELSE Num(i + j)

\* Small files, without records or with MaxRows of them, over every choice
\* of one to MaxCols columns of the pool.
ViewCsvs ==
    {LET ix == Ascending(S)
     IN [header |-> [k \in DOMAIN ix |-> Spell(ColumnPool[ix[k]], sp)],
         records |-> [i \in 1..n |->
                         [k \in DOMAIN ix |-> Field(i, k, ColumnPool[ix[k]], fill)]]] :
        S \in {T \in SUBSET DOMAIN ColumnPool : T # {} /\ Cardinality(T) <= MaxCols},
        sp \in {"csv", "canonical"},
        n \in {0, MaxRows},
        fill \in {"full", "gaps", "text"}}

\* The score of record i: a residue, missing in every miss-th record.
Score(i, stride, modulus, miss) ==
    IF miss > 0 /\ i % miss = 0 THEN NaN ELSE Num((i * stride) % modulus)

\* Country and score files of up to MaxScoreRows records: increasing,
\* decreasing and scrambled distinct scores, tied scores, missing scores.
ScoreCsvs ==
    {[header |-> <<CsvSpelling(country), CsvSpelling(happiness_score)>>,
      records |-> [i \in 1..n |-> <<Text(i), Score(i, sm[1], sm[2], miss)>>]] :
        n \in 0..MaxScoreRows,
        sm \in {<<1, 101>>, <<100, 101>>, <<37, 101>>, <<1, 4>>},
        miss \in {0, 2, 3}}

Files == {<<c>> : c \in ViewCsvs \cup ScoreCsvs} \cup {<<>>}

\* What the file is rewritten to while a session runs.
AltCsvs ==
    {[header |-> <<<<"Ladder", " ", "score">>, <<"Generosity">>>>,
      records |-> << <<Num(5), Num(6)>> >>]}

(***************************************************************************)
(* The session: script runs, each one atomic (Streamlit runs the script    *)
(* top to bottom on every interaction).                                    *)
(***************************************************************************)
\* A memoisation that stores nothing.
CacheStoreNothing(value) == <<>>

\* @st.cache_data: the value the body returned is kept for later calls.
CacheStore(value) == <<value>>

RECURSIVE Gather(_, _)
Gather(outs, fld) ==
    IF outs = <<>> THEN <<>>
    ELSE (CASE fld = "errors" -> Head(outs).errors
            [] fld = "plots" -> Head(outs).plots
            [] fld = "charts" -> Head(outs).charts
            [] fld = "branch" -> <<Head(outs).branch>>)
         \o Gather(Tail(outs), fld)

\* One run of the script with the radio at p, in a session that has run
\* load_data's body l times and rendered r times before.
RunScript(p, l, r) ==
    LET hit == cache # <<>>
        value == IF hit THEN cache[1] ELSE load_data(file[1])
        outs == ViewDispatch(p, value)
    IN /\ page' = p
       /\ loads' = IF hit THEN l ELSE l + 1
       /\ UNCHANGED <<file, step, again>>
       /\ IF ~hit /\ file = <<>>
          THEN \* pd.read_csv raises FileNotFoundError: the run ends at line 39.
               /\ cache' = cache
               /\ loaded' = EmptyTable
               /\ df' = EmptyTable
               /\ errors' = <<>> /\ plots' = <<>> /\ charts' = <<>>
               /\ branches' = <<>>
               /\ raised' = TRUE
               /\ sidebar' = FALSE
               /\ renders' = r
               /\ firstDf' = IF r = 0 THEN <<>> ELSE firstDf
          ELSE /\ cache' = IF hit THEN cache ELSE CacheStore(value)
               /\ loaded' = value
               /\ df' = IF outs = <<>> THEN value ELSE outs[Len(outs)].df
               /\ errors' = Gather(outs, "errors")
               /\ plots' = Gather(outs, "plots")
               /\ charts' = Gather(outs, "charts")
               /\ branches' = Gather(outs, "branch")
               /\ raised' = \E k \in DOMAIN outs : outs[k].raised
               /\ sidebar' = TRUE
               /\ renders' = r + 1
               /\ firstDf' = IF r = 0 THEN <<value>> ELSE firstDf

\* A browser opens the page: a new session, the radio at its first option.
OpenSession == step = "session" /\ RunScript(Options[1], 0, 0)

\* The user picks another view in the sidebar: the script runs again.
SelectView ==
    /\ step = "session"
    /\ sidebar
    /\ renders < MaxRenders
    /\ \E k \in DOMAIN Options : Options[k] # page /\ RunScript(Options[k], loads, renders)

\* The file is rewritten on disk.
FileRewritten ==
    /\ step = "session"
    /\ \E c \in AltCsvs : file # <<c>> /\ file' = <<c>>
    /\ UNCHANGED <<cache, loaded, df, page, errors, plots, charts, raised, branches,
                   sidebar, loads, renders, firstDf, step, again>>

\* The file is removed from disk.
FileRemoved ==
    /\ step = "session"
    /\ file # <<>>
    /\ file' = <<>>
    /\ UNCHANGED <<cache, loaded, df, page, errors, plots, charts, raised, branches,
                   sidebar, loads, renders, firstDf, step, again>>

Init ==
    /\ file \in Files
    /\ cache = <<>>
    /\ loaded = EmptyTable
    /\ df = EmptyTable
    /\ page = Options[1]
    /\ errors = <<>> /\ plots = <<>> /\ charts = <<>> /\ branches = <<>>
    /\ raised = FALSE
    /\ sidebar = FALSE
    /\ loads = 0
    /\ renders = 0
    /\ firstDf = <<>>
    /\ step = "session"
    /\ again = EmptyTable

Next == OpenSession \/ SelectView \/ FileRewritten \/ FileRemoved

Spec == Init /\ [][Next]_vars

(***************************************************************************)
(* The loader on its own: a CSV with any headers of the pool is loaded,    *)
(* and the loaded table's headers are canonicalised a second time.         *)
(***************************************************************************)
Padded(h) == <<" ", "\t">> \o h \o <<"\t", " ">>

\* Canonical and alternate names as they are, the CSV's spellings padded
\* with whitespace, and headers the rename map does not know.
RawHeaders ==
    {rename_map[k][1] : k \in DOMAIN rename_map}
    \cup {rename_map[k][2] : k \in DOMAIN rename_map}
    \cup {Padded(CsvSpelling(rename_map[k][2])) : k \in DOMAIN rename_map}
    \cup {generosity, <<"Happiness", " ", "Score">>, <<" ">>,
          <<"country", "\t", "name">>, <<"_", "region">>}

\* Header lines: read_csv wants a column and hands out distinct labels.
HeaderLines ==
    {h \in UNION {[1..n -> RawHeaders] : n \in 1..MaxHeaders} :
        \A a, b \in DOMAIN h : a # b => h[a] # h[b]}

LoaderCsvs ==
    {[header |-> h,
      records |-> [i \in 1..n |-> [j \in DOMAIN h |-> IF j = 1 THEN Text(i) ELSE Num(i + j)]]] :
        h \in HeaderLines, n \in 0..1}

LoaderInit ==
    /\ file \in {<<c>> : c \in LoaderCsvs}
    /\ cache = <<>>
    /\ loaded = EmptyTable
    /\ df = EmptyTable
    /\ page = Options[1]
    /\ errors = <<>> /\ plots = <<>> /\ charts = <<>> /\ branches = <<>>
    /\ raised = FALSE
    /\ sidebar = FALSE
    /\ loads = 0
    /\ renders = 0
    /\ firstDf = <<>>
    /\ step = "csv"
    /\ again = EmptyTable

\* df = load_data()
LoaderLoad ==
    /\ step = "csv"
    /\ loaded' = load_data(file[1])
    /\ df' = loaded'
    /\ step' = "loaded"
    /\ UNCHANGED <<file, cache, page, errors, plots, charts, raised, branches,
                   sidebar, loads, renders, firstDf, again>>

\* Lines 19-35 applied to the table load_data returned.
LoaderAgain ==
    /\ step = "loaded"
    /\ again' = Canonicalize(df)
    /\ step' = "again"
    /\ UNCHANGED <<file, cache, loaded, df, page, errors, plots, charts, raised,
                   branches, sidebar, loads, renders, firstDf>>

LoaderNext == LoaderLoad \/ LoaderAgain

LoaderSpec == LoaderInit /\ [][LoaderNext]_vars

(***************************************************************************)
(* Properties.                                                             *)
(***************************************************************************)
Min(a, b) == IF a < b THEN a ELSE b
Max(a, b) == IF a > b THEN a ELSE b

Columns(t) == Range(t.columns)

\* What a view needs of the table to draw its chart.
Requirement(p, t) ==
    CASE p = "Top & Bottom 10 Countries" -> {happiness_score, country} \subseteq Columns(t)
      [] p = "GDP vs Happiness" -> {gdp_per_capita, happiness_score} \subseteq Columns(t)
      [] p = "Social Support vs Happiness" ->
             {social_support, happiness_score} \subseteq Columns(t)
      [] p = "Happiness Distribution" -> happiness_score \in Columns(t)
      [] p = "Correlation Heatmap" -> \E j \in DOMAIN t.dtypes : t.dtypes[j] = "number"
      [] p = "Pairwise Relationships" ->
             Cardinality({happiness_score, gdp_per_capita, social_support,
                          life_expectancy, freedom} \cap Columns(t)) >= 2

\* C1: in every view, a render on a table that lacks what the view requires
\* shows an error message, reaches no plotting call and renders no chart.
C1_MissingColumnShowsError ==
    (sidebar /\ ~Requirement(page, loaded))
        => (Len(errors) = 1 /\ plots = <<>> /\ charts = <<>>)

\* The scores of the table the last run loaded.
ScoreCells == [i \in DOMAIN loaded.rows |->
                  loaded.rows[i][ColIndex(loaded, happiness_score)]]

TopBottomDrawn ==
    /\ sidebar
    /\ page = "Top & Bottom 10 Countries"
    /\ Len(plots) = 2

DistinctScores ==
    /\ \A i \in DOMAIN ScoreCells : ScoreCells[i].kind = "num"
    /\ \A a, b \in DOMAIN ScoreCells : a # b => ScoreCells[a].val # ScoreCells[b].val

Shared == Range(plots[1].data.index) \cap Range(plots[2].data.index)

\* C2 as claimed: with pairwise distinct scores no row is in both top_10 and
\* bottom_10, whatever the number of rows.
C2_DisjointForAnyRowCount ==
    (TopBottomDrawn /\ DistinctScores) => Shared = {}

\* C2 as amended: with all scores present and pairwise distinct, top_10 and
\* bottom_10 of a table of n rows share exactly max(0, 2 * min(10, n) - n)
\* rows, so they are disjoint when n >= 20 and overlap when 0 < n < 20.
C2_DisjointFromTwentyRows ==
    (TopBottomDrawn /\ DistinctScores)
        => LET n == Len(loaded.rows)
           IN /\ Cardinality(Shared) = Max(0, 2 * Min(TopN, n) - n)
              /\ n >= 2 * TopN => Shared = {}
              /\ (0 < n /\ n < 2 * TopN) => Shared # {}

C2_Witness ==
    /\ TopBottomDrawn
    /\ DistinctScores
    /\ Len(loaded.rows) >= 2 * TopN
    /\ plots[1].data.index # plots[2].data.index
    /\ \E i \in 1..(Len(ScoreCells) - 1) : ScoreCells[i].val > ScoreCells[i + 1].val
    /\ \E i \in 1..(Len(ScoreCells) - 1) : ScoreCells[i].val < ScoreCells[i + 1].val

\* The scores of a selection, and the selection as rows of the loaded table.
ScoresOf(d) == [k \in DOMAIN d.rows |-> d.rows[k][ColIndex(d, happiness_score)]]

RowsOfLoaded(d) ==
    /\ \A a, b \in DOMAIN d.index : a # b => d.index[a] # d.index[b]
    /\ \A k \in DOMAIN d.rows :
           \E i \in DOMAIN loaded.rows :
               loaded.index[i] = d.index[k] /\ loaded.rows[i] = d.rows[k]

\* The scores of the loaded rows that are not in the selection d.
LeftOut(d) ==
    {ScoreCells[i] : i \in {x \in DOMAIN loaded.rows : loaded.index[x] \notin Range(d.index)}}

InOrder(a, b, desc) == IF desc THEN a >= b ELSE a <= b

\* Every row of d has a score, the scores are in order, and no row left out
\* of d would come before a row of d.
ExtremeInOrder(d, desc) ==
    LET v == ScoresOf(d)
    IN /\ \A k \in DOMAIN v : v[k].kind = "num"
       /\ \A k \in 1..(Len(v) - 1) : InOrder(v[k].val, v[k + 1].val, desc)
       /\ \A c \in LeftOut(d) : \A k \in DOMAIN v :
              c.kind = "num" /\ InOrder(v[k].val, c.val, desc)

\* C3 as claimed: for every table with the two columns, top_10 and bottom_10
\* have min(10, n) rows each, the largest scores in descending order and the
\* smallest in ascending order, missing and tied scores included.
C3_ExtremesForEveryTable ==
    (sidebar /\ page = "Top & Bottom 10 Countries" /\ Requirement(page, loaded))
        => /\ Len(plots) = 2
           /\ Len(plots[1].data.rows) = Min(TopN, Len(loaded.rows))
           /\ Len(plots[2].data.rows) = Min(TopN, Len(loaded.rows))
           /\ ExtremeInOrder(plots[1].data, TRUE)
           /\ ExtremeInOrder(plots[2].data, FALSE)

\* The first min(10, rows with a score) rows of d have a score, in order, and
\* are extreme among the rows with a score; the rows after them have none.
ValuedFirst(d, desc) ==
    LET v == ScoresOf(d)
        valued == Cardinality({i \in DOMAIN ScoreCells : ScoreCells[i].kind = "num"})
        m == Min(TopN, valued)
    IN /\ Len(v) >= m
       /\ \A k \in 1..m : v[k].kind = "num"
       /\ \A k \in (m + 1)..Len(v) : v[k].kind = "nan"
       /\ \A k \in 1..(m - 1) : InOrder(v[k].val, v[k + 1].val, desc)
       /\ \A c \in LeftOut(d) : \A k \in 1..m :
              c.kind = "num" => InOrder(v[k].val, c.val, desc)

\* C3 as amended: when happiness_score is numeric, top_10 and bottom_10 are
\* min(10, n) rows of the table each; the rows with a score come first, the
\* largest in descending order in top_10 and the smallest in ascending order
\* in bottom_10, and rows whose score is missing follow them, which happens
\* only when fewer than 10 rows have a score.  When happiness_score is not
\* numeric the selection raises and nothing is selected or drawn.
C3_ValuedRowsFirst ==
    (sidebar /\ page = "Top & Bottom 10 Countries" /\ Requirement(page, loaded))
        => IF loaded.dtypes[ColIndex(loaded, happiness_score)] = "number"
           THEN /\ Len(plots) = 2
                /\ ~raised
                /\ Len(plots[1].data.rows) = Min(TopN, Len(loaded.rows))
                /\ Len(plots[2].data.rows) = Min(TopN, Len(loaded.rows))
                /\ RowsOfLoaded(plots[1].data) /\ RowsOfLoaded(plots[2].data)
                /\ ValuedFirst(plots[1].data, TRUE)
                /\ ValuedFirst(plots[2].data, FALSE)
           ELSE raised /\ plots = <<>> /\ charts = <<>>

C3_Witness ==
    /\ TopBottomDrawn
    /\ Len(loaded.rows) > TopN
    /\ Len(plots[1].data.rows) = TopN
    /\ ScoresOf(plots[1].data)[1].kind = "num"
    /\ ScoresOf(plots[1].data)[TopN].kind = "nan"
    /\ ScoresOf(plots[2].data)[TopN].kind = "nan"

\* C5: once load_data has returned, no view changes df: at the end of every
\* run, whichever branch ran, df is the table load_data returned, and across
\* the session it stays the table of the first render.
C5_DfNeverMutated ==
    sidebar => (df = loaded /\ df = firstDf[1])

C5_Witness ==
    /\ sidebar
    /\ renders >= 2
    /\ page = "Pairwise Relationships"
    /\ charts = <<"pairplot">>
    /\ Len(plots[1].data.rows) < Len(df.rows)
    /\ Len(plots[1].data.columns) < Len(df.columns)
    /\ df = loaded

ChartsOf(p) == IF p = "Top & Bottom 10 Countries" THEN 2 ELSE 1

\* C6 as claimed: every render runs exactly one branch, which renders either
\* an error message and no chart, or exactly one chart and no error message.
C6_OneErrorOrOneChart ==
    sidebar
        => /\ Len(branches) = 1
           /\ \/ (Len(errors) = 1 /\ charts = <<>>)
              \/ (errors = <<>> /\ Len(charts) = 1)

\* C6 as amended: every render runs exactly one branch, the selected one.
\* It renders one error message and no chart, or no error message and one
\* chart, two charts in Top & Bottom 10 Countries; when a library call of
\* the branch raises, it renders no error message and fewer charts than that.
C6_OneBranchPerRender ==
    /\ sidebar
           => /\ branches = <<page>>
              /\ page \in Range(Options)
              /\ \/ (Len(errors) = 1 /\ charts = <<>> /\ plots = <<>> /\ ~raised)
                 \/ (errors = <<>> /\ Len(charts) = ChartsOf(page) /\ ~raised)
                 \/ (errors = <<>> /\ Len(charts) < ChartsOf(page) /\ raised)
    /\ ~sidebar => (branches = <<>> /\ errors = <<>> /\ charts = <<>>)
    /\ \A a, b \in DOMAIN Options : a # b => Options[a] # Options[b]

C6_Witness ==
    /\ sidebar
    /\ page = "Top & Bottom 10 Countries"
    /\ charts = <<"barplot", "barplot">>
    /\ errors = <<>>

\* C8: in a session the body of load_data runs at most once, and every
\* render sees the table of the session's first render, whatever has become
\* of the file since.
C8_LoadedOncePerSession ==
    /\ loads <= 1
    /\ sidebar => (firstDf # <<>> /\ loaded = firstDf[1])
    /\ renders >= 1 => firstDf # <<>>

C8_Witness ==
    /\ sidebar
    /\ renders >= 2
    /\ loads = 1
    /\ file # <<>>
    /\ load_data(file[1]) # loaded
    /\ loaded = firstDf[1]

KeyColumns ==
    <<happiness_score, gdp_per_capita, social_support, life_expectancy, freedom>>

Header == file[1].header

\* C4: canonicalisation is idempotent: canonicalising the headers of the
\* table load_data returned leaves every header, and the table, as it is.
C4_NormalizationIdempotent ==
    step = "again" => (again.columns = df.columns /\ again = df)

C4_Witness ==
    /\ step = "again"
    /\ \E j \in DOMAIN Header :
           /\ NormalizeName(Header[j]) # Header[j]
           /\ df.columns[j] # NormalizeName(Header[j])
    /\ again.columns = df.columns

\* C7: load_data changes nothing but column names: as many columns as the
\* CSV has headers, in the same positions, over the same rows and cells; a
\* header whose normalised name is no key of the rename map is called by its
\* normalised name, a key by its target.
C7_OnlyNamesChange ==
    step # "csv"
        => /\ Len(df.columns) = Len(Header)
           /\ Len(df.dtypes) = Len(Header)
           /\ df.rows = file[1].records
           /\ Len(df.index) = Len(file[1].records)
           /\ \A j \in DOMAIN Header :
                  LET name == NormalizeName(Header[j])
                      keys == {k \in DOMAIN rename_map : rename_map[k][1] = name}
                  IN IF keys = {} THEN df.columns[j] = name
                     ELSE \A k \in keys : df.columns[j] = rename_map[k][2]

C7_Witness ==
    /\ step = "loaded"
    /\ Len(df.rows) = 1
    /\ Len(df.columns) = 2
    /\ df.columns[1] # NormalizeName(Header[1])
    /\ df.columns[2] = NormalizeName(Header[2])
    /\ df.columns[2] # Header[2]

Alternates ==
    {<<country_name, country>>, <<ladder_score, happiness_score>>,
     <<logged_gdp_per_capita, gdp_per_capita>>,
     <<healthy_life_expectancy, life_expectancy>>,
     <<freedom_to_make_life_choices, freedom>>,
     <<perceptions_of_corruption, corruption>>, <<regional_indicator, region>>}

\* C10: canonicalisation is complete: after load_data none of the seven
\* alternate names is a column, and a canonical name is a column exactly when
\* some header normalises to it or to its alternate spelling.
C10_CanonicalizationComplete ==
    step # "csv"
        => \A p \in Alternates :
               /\ p[1] \notin Columns(df)
               /\ p[2] \in Columns(df)
                      <=> \E j \in DOMAIN Header : NormalizeName(Header[j]) \in {p[1], p[2]}

C10_Witness ==
    /\ step = "loaded"
    /\ Len(Header) = 2
    /\ \E p, q \in Alternates :
           /\ p # q
           /\ NormalizeName(Header[1]) = p[1]
           /\ NormalizeName(Header[2]) = q[1]
           /\ Header[1] # p[1]
           /\ df.columns = <<p[2], q[2]>>

====
